---- MODULE Spec2Model ----
(***************************************************************************)
(* Model of the event hub returned by createNexusHub (src/src/index.js).   *)
(*                                                                         *)
(* JavaScript values are records [t, s, w]: t is the result of typeof,     *)
(* s the characters of a string (or the name of a function), w the         *)
(* variables a once wrapper closes over.  A plain object such as           *)
(* callbacks[eventName] is the sequence of its own properties in the order *)
(* in which Object.keys / Object.values enumerate them.                    *)
(*                                                                         *)
(* Listener callbacks and custom loggers are user code: once invoked they  *)
(* may call any hub method, any number of times, and then return or throw. *)
(* The call stack of the single JavaScript thread is the variable stack.   *)
(***************************************************************************)
EXTENDS Integers, Sequences, FiniteSets

\* Bounds of the model.
MaxCalls == 4        \* hub method calls made by user code in one behaviour
MaxDepth == 2        \* emit calls that may be in flight at the same time

(***************************************************************************)
(* JavaScript values                                                       *)
(***************************************************************************)
Str(chars) == [t |-> "string", s |-> chars, w |-> <<>>]
Undefined == [t |-> "undefined", s |-> <<>>, w |-> <<>>]
Num(digits) == [t |-> "number", s |-> digits, w |-> <<>>]
Fn(name) == [t |-> "function", s |-> <<name>>, w |-> <<>>]
Bool(b) == [t |-> "boolean", s |-> IF b THEN <<"true">> ELSE <<"false">>, w |-> <<>>]
Arr(elems) == [t |-> "object", s |-> <<"Array">>, w |-> elems]

\* Array.isArray(v)
IsArray(v) == v.t = "object" /\ v.s = <<"Array">>

TypeOf(v) == v.t

\* The characters String.prototype.trim removes (the ones the model uses).
WhiteSpace == {" "}

RECURSIVE TrimStart(_)
TrimStart(chars) ==
    IF chars # <<>> /\ Head(chars) \in WhiteSpace THEN TrimStart(Tail(chars)) ELSE chars

RECURSIVE TrimEnd(_)
TrimEnd(chars) ==
    IF chars # <<>> /\ chars[Len(chars)] \in WhiteSpace
    THEN TrimEnd(SubSeq(chars, 1, Len(chars) - 1))
    ELSE chars

\* id.trim()
Trim(chars) == TrimEnd(TrimStart(chars))

Digits == {"0", "1", "2", "3", "4", "5", "6", "7", "8", "9"}

DigitValue(c) ==
    CASE c = "0" -> 0 [] c = "1" -> 1 [] c = "2" -> 2 [] c = "3" -> 3 [] c = "4" -> 4
      [] c = "5" -> 5 [] c = "6" -> 6 [] c = "7" -> 7 [] c = "8" -> 8 [] c = "9" -> 9

RECURSIVE ToNumber(_)
ToNumber(chars) ==
    IF chars = <<>> THEN 0
    ELSE 10 * ToNumber(SubSeq(chars, 1, Len(chars) - 1)) + DigitValue(chars[Len(chars)])

\* A property key is an integer index when it is the canonical decimal form
\* of a non-negative integer: such keys are enumerated first, in ascending
\* numeric order, before all other string keys.
IsIntegerIndex(chars) ==
    /\ chars # <<>>
    /\ \A i \in 1..Len(chars) : chars[i] \in Digits
    /\ (Len(chars) > 1 => chars[1] # "0")

(***************************************************************************)
(* Plain objects with a null prototype: Object.create(null)                *)
(***************************************************************************)
EmptyObject == <<>>

ObjectKeys(obj) == [i \in 1..Len(obj) |-> obj[i].key]

ObjectValues(obj) == [i \in 1..Len(obj) |-> obj[i].value]

HasOwn(obj, key) == \E i \in 1..Len(obj) : obj[i].key = key

GetOwn(obj, key) == obj[CHOOSE i \in 1..Len(obj) : obj[i].key = key].value

\* Does the property key come before the property p in enumeration order,
\* when key is a new property of the object?
KeyBefore(key, p) ==
    /\ IsIntegerIndex(key)
    /\ (IsIntegerIndex(p.key) => ToNumber(key) < ToNumber(p.key))

\* Mutant: a list of listeners that push() grows on every registration.
SetOwn_Push(obj, key, value) == Append(obj, [key |-> key, value |-> value])

\* obj[key] = value
SetOwn(obj, key, value) ==
    IF HasOwn(obj, key)
    THEN [i \in 1..Len(obj) |->
            IF obj[i].key = key THEN [key |-> key, value |-> value] ELSE obj[i]]
    ELSE LET first == Cardinality({i \in 1..Len(obj) : ~KeyBefore(key, obj[i])})
         IN  IF IsIntegerIndex(key)
             THEN SubSeq(obj, 1, first) \o <<[key |-> key, value |-> value]>>
                    \o SubSeq(obj, first + 1, Len(obj))
             ELSE Append(obj, [key |-> key, value |-> value])

\* delete obj[key]
DeleteOwn(obj, key) == SelectSeq(obj, LAMBDA p : p.key # key)

(***************************************************************************)
(* The state of one hub (the closure of createNexusHub) and of its caller  *)
(***************************************************************************)
VARIABLES
    eventNames,     \* the array passed to createNexusHub (never copied)
    validEvents,    \* new Set(eventNames)
    callbacks,      \* callbacks[name]: the object id -> callback of a channel
    debugAll,       \* let debugAll
    debugFilter,    \* let debugFilter: null or a Set of event names
    logger,         \* let logger
    stack,          \* call stack: emit calls, once wrappers and user code in flight
    last,           \* what the latest step did, and the result of the call it ended
    calls,          \* hub method calls made so far
    script,         \* the calls of a scripted caller; <<>> for arbitrary user code
    hist            \* the steps of a scripted caller's run, oldest first

vars == <<eventNames, validEvents, callbacks, debugAll, debugFilter, logger,
          stack, last, calls, script, hist>>

\* The names the modelled program declares: createNexusHub(['a', 'b']).
DeclaredNames == <<Str(<<"a">>), Str(<<"b">>)>>

\* let logger = (eventName, data) => { console.log(...) }
DefaultLogger == Fn("defaultLogger")

NullFilter == [null |-> TRUE, set |-> {}]
SetOf(elems) == [null |-> FALSE, set |-> {elems[i] : i \in 1..Len(elems)}]

Range(seq) == {seq[i] : i \in 1..Len(seq)}

\* The classes of the errors the hub throws: new TypeError(...) for an argument
\* of the wrong type, new Error(...) for an event name that is not registered.
InvalidArgument == "TypeError"
UnknownChannel == "Error"

\* createNexusHub(names) up to `return hub`: the closure it builds, or the class
\* of the error it throws.  The closure variable eventNames is the caller's
\* array itself.
createNexusHub(names) ==
    LET none == [err |-> "none", eventNames |-> <<>>, validEvents |-> {},
                 callbacks |-> <<>>, debugAll |-> FALSE, debugFilter |-> NullFilter,
                 logger |-> DefaultLogger]
    IN  IF ~IsArray(names) THEN [none EXCEPT !.err = "TypeError"]
        ELSE IF Len(names.w) = 0 THEN [none EXCEPT !.err = "Error"]
        ELSE IF Cardinality(Range(names.w)) # Len(names.w)
             THEN [none EXCEPT !.err = "Error"]
        ELSE IF \E i \in 1..Len(names.w) : TypeOf(names.w[i]) # "string"
             THEN [none EXCEPT !.err = "TypeError"]
        ELSE [none EXCEPT
                !.eventNames = names.w,
                !.validEvents = Range(names.w),
                !.callbacks = [k \in {n.s : n \in Range(names.w)} |-> EmptyObject]]

\* validEvents.has(eventName)
ValidEvent(eventName) == eventName \in validEvents

\* debugAll || (debugFilter && debugFilter.has(eventName))
DebugEnabled(eventName) ==
    debugAll \/ (~debugFilter.null /\ eventName \in debugFilter.set)

\* The closure state the registration methods change, and what a method
\* call gives back: err is "none" or the class of the error it throws.  When
\* the call returns an array, list holds its elements.  ref tells which object
\* the call returns, if it returns one: the hub ("hub"), the array the closure
\* variable eventNames refers to ("eventNames"), or a new one ("fresh").
Thrown(kind) ==
    [err |-> kind, callbacks |-> callbacks, debugAll |-> debugAll,
     debugFilter |-> debugFilter, logger |-> logger,
     bool |-> FALSE, num |-> 0, list |-> <<>>, ref |-> "fresh"]

Returned ==
    [err |-> "none", callbacks |-> callbacks, debugAll |-> debugAll,
     debugFilter |-> debugFilter, logger |-> logger,
     bool |-> FALSE, num |-> 0, list |-> <<>>, ref |-> "fresh"]

\* return hub
ReturnedHub == [Returned EXCEPT !.ref = "hub"]

(***************************************************************************)
(* The methods of the hub                                                  *)
(***************************************************************************)
\* Mutant: the id is checked with id === '' instead of id.trim() === ''.
on_NoTrim(eventName, id, callback) ==
    IF ~ValidEvent(eventName) THEN Thrown("Error")
    ELSE IF TypeOf(id) # "string" \/ id.s = <<>> THEN Thrown("TypeError")
    ELSE IF TypeOf(callback) # "function" THEN Thrown("TypeError")
    ELSE [ReturnedHub EXCEPT
            !.callbacks = [callbacks EXCEPT ![eventName.s] = SetOwn(@, id.s, callback)]]

\* Mutant: one mapping id -> callback for all the channels.
on_AllChannels(eventName, id, callback) ==
    IF ~ValidEvent(eventName) THEN Thrown("Error")
    ELSE IF TypeOf(id) # "string" \/ Trim(id.s) = <<>> THEN Thrown("TypeError")
    ELSE IF TypeOf(callback) # "function" THEN Thrown("TypeError")
    ELSE [ReturnedHub EXCEPT
            !.callbacks = [n \in DOMAIN callbacks |-> SetOwn(callbacks[n], id.s, callback)]]

\* Mutant: on without the typeof callback check.
on_NoCallbackCheck(eventName, id, callback) ==
    IF ~ValidEvent(eventName) THEN Thrown("Error")
    ELSE IF TypeOf(id) # "string" \/ Trim(id.s) = <<>> THEN Thrown("TypeError")
    ELSE [ReturnedHub EXCEPT
            !.callbacks = [callbacks EXCEPT ![eventName.s] = SetOwn(@, id.s, callback)]]

\* hub.on(eventName, id, callback)
on(eventName, id, callback) ==
    IF ~ValidEvent(eventName) THEN Thrown("Error")
    ELSE IF TypeOf(id) # "string" \/ Trim(id.s) = <<>> THEN Thrown("TypeError")
    ELSE IF TypeOf(callback) # "function" THEN Thrown("TypeError")
    ELSE [ReturnedHub EXCEPT
            !.callbacks = [callbacks EXCEPT ![eventName.s] = SetOwn(@, id.s, callback)]]

\* const wrapper = (data) => { callback(data); hub.off(eventName, id); }
Wrapper(callback, eventName, id) ==
    [t |-> "function", s |-> <<"wrapper">>, w |-> <<callback, eventName, id>>]

IsWrapper(f) == f.t = "function" /\ f.s = <<"wrapper">>

\* Mutant: once without its own check of the callback.
once_NoCallbackCheck(eventName, id, callback) ==
    IF ~ValidEvent(eventName) THEN Thrown("Error")
    ELSE on(eventName, id, Wrapper(callback, eventName, id))

\* hub.once(eventName, id, callback)
once(eventName, id, callback) ==
    IF ~ValidEvent(eventName) THEN Thrown("Error")
    ELSE IF TypeOf(callback) # "function" THEN Thrown("TypeError")
    ELSE on(eventName, id, Wrapper(callback, eventName, id))

\* Mutant: off(eventName, id) drops every listener of the channel.
off_DropsAll(eventName, id) ==
    IF ~ValidEvent(eventName) THEN Thrown("Error")
    ELSE IF id # Undefined /\ TypeOf(id) # "string" THEN Thrown("TypeError")
    ELSE [ReturnedHub EXCEPT
            !.callbacks = [callbacks EXCEPT ![eventName.s] = EmptyObject]]

\* Mutant: every id that is not a string selects the reset of the channel.
off_NonStringClears(eventName, id) ==
    IF ~ValidEvent(eventName) THEN Thrown("Error")
    ELSE IF TypeOf(id) # "string"
         THEN [ReturnedHub EXCEPT
                 !.callbacks = [callbacks EXCEPT ![eventName.s] = EmptyObject]]
    ELSE [ReturnedHub EXCEPT
            !.callbacks = [callbacks EXCEPT ![eventName.s] = DeleteOwn(@, id.s)]]

\* hub.off(eventName, id)
off(eventName, id) ==
    IF ~ValidEvent(eventName) THEN Thrown("Error")
    ELSE IF id = Undefined
         THEN [ReturnedHub EXCEPT
                 !.callbacks = [callbacks EXCEPT ![eventName.s] = EmptyObject]]
    ELSE IF TypeOf(id) # "string" THEN Thrown("TypeError")
    ELSE [ReturnedHub EXCEPT
            !.callbacks = [callbacks EXCEPT ![eventName.s] = DeleteOwn(@, id.s)]]

\* callbacks[name] = Object.create(null), for every name of names
ResetAll(names) ==
    [k \in DOMAIN callbacks \cup {n.s : n \in Range(names)} |->
        IF k \in {n.s : n \in Range(names)} THEN EmptyObject ELSE callbacks[k]]

\* Mutant: clear(eventName) without the validEvents.has(eventName) check.
clear_NoCheck(eventName) ==
    IF eventName # Undefined
    THEN [ReturnedHub EXCEPT !.callbacks = ResetAll(<<eventName>>)]
    ELSE [ReturnedHub EXCEPT !.callbacks = ResetAll(eventNames)]

\* Mutant: clear(eventName) resets every channel, as clear() does.
clear_Everything(eventName) ==
    IF eventName # Undefined /\ ~ValidEvent(eventName) THEN Thrown("Error")
    ELSE [ReturnedHub EXCEPT !.callbacks = ResetAll(eventNames)]

\* hub.clear(eventName)
clear(eventName) ==
    IF eventName # Undefined
    THEN IF ~ValidEvent(eventName) THEN Thrown("Error")
         ELSE [ReturnedHub EXCEPT
                 !.callbacks = [callbacks EXCEPT ![eventName.s] = EmptyObject]]
    ELSE [ReturnedHub EXCEPT !.callbacks = ResetAll(eventNames)]

\* Mutant: the count of the first name only.
TotalCount_First(names) ==
    IF names = <<>> THEN 0 ELSE Len(ObjectKeys(callbacks[Head(names).s]))

\* names.reduce((total, name) => total + Object.keys(callbacks[name]).length, 0)
RECURSIVE TotalCount(_)
TotalCount(names) ==
    IF names = <<>> THEN 0
    ELSE Len(ObjectKeys(callbacks[Head(names).s])) + TotalCount(Tail(names))

\* Mutant: the listeners of each name are put in front of the ones collected.
RECURSIVE AllListeners_Reversed(_)
AllListeners_Reversed(names) ==
    IF names = <<>> THEN <<>>
    ELSE AllListeners_Reversed(Tail(names)) \o ObjectValues(callbacks[Head(names).s])

\* names.reduce((all, name) => all.concat(Object.values(callbacks[name])), [])
RECURSIVE AllListeners(_)
AllListeners(names) ==
    IF names = <<>> THEN <<>>
    ELSE ObjectValues(callbacks[Head(names).s]) \o AllListeners(Tail(names))

\* Object.keys(undefined) and Object.values(undefined) throw a TypeError.
AllHaveObjects(names) == \A n \in Range(names) : n.s \in DOMAIN callbacks

\* hub.listenerCount(eventName)
listenerCount(eventName) ==
    IF eventName # Undefined
    THEN IF ~ValidEvent(eventName) THEN Thrown("Error")
         ELSE [Returned EXCEPT !.num = Len(ObjectKeys(callbacks[eventName.s]))]
    ELSE IF ~AllHaveObjects(eventNames) THEN Thrown("TypeError")
         ELSE [Returned EXCEPT !.num = TotalCount(eventNames)]

\* hub.listeners(eventName)
listeners(eventName) ==
    IF eventName # Undefined
    THEN IF ~ValidEvent(eventName) THEN Thrown("Error")
         ELSE [Returned EXCEPT !.list = ObjectValues(callbacks[eventName.s])]
    ELSE IF ~AllHaveObjects(eventNames) THEN Thrown("TypeError")
         ELSE [Returned EXCEPT !.list = AllListeners(eventNames)]

\* Mutant: return eventNames, the array itself.
hubEventNames_Alias == [Returned EXCEPT !.list = eventNames, !.ref = "eventNames"]

\* hub.eventNames(): [...eventNames]
hubEventNames == [Returned EXCEPT !.list = [i \in 1..Len(eventNames) |-> eventNames[i]]]

\* Mutant: debugAll and debugFilter are reset before the names are checked.
setDebug_Partial(enabled) ==
    IF enabled = Bool(TRUE)
    THEN [ReturnedHub EXCEPT !.debugAll = TRUE, !.debugFilter = NullFilter]
    ELSE IF enabled = Bool(FALSE)
    THEN [ReturnedHub EXCEPT !.debugAll = FALSE, !.debugFilter = NullFilter]
    ELSE IF IsArray(enabled)
    THEN IF \E i \in 1..Len(enabled.w) : ~ValidEvent(enabled.w[i])
         THEN [Thrown("Error") EXCEPT !.debugAll = FALSE, !.debugFilter = SetOf(<<>>)]
         ELSE [ReturnedHub EXCEPT !.debugAll = FALSE, !.debugFilter = SetOf(enabled.w)]
    ELSE Thrown("TypeError")

\* hub.setDebug(enabled)
setDebug(enabled) ==
    IF enabled = Bool(TRUE)
    THEN [ReturnedHub EXCEPT !.debugAll = TRUE, !.debugFilter = NullFilter]
    ELSE IF enabled = Bool(FALSE)
    THEN [ReturnedHub EXCEPT !.debugAll = FALSE, !.debugFilter = NullFilter]
    ELSE IF IsArray(enabled)
    THEN IF \E i \in 1..Len(enabled.w) : ~ValidEvent(enabled.w[i])
         THEN Thrown("Error")
         ELSE [ReturnedHub EXCEPT !.debugAll = FALSE, !.debugFilter = SetOf(enabled.w)]
    ELSE Thrown("TypeError")

\* Mutant: setLogger without its return statement.
setLogger_NoReturn(fn) ==
    IF TypeOf(fn) # "function" THEN Thrown("TypeError")
    ELSE [Returned EXCEPT !.logger = fn]

\* Mutant: setLogger without the typeof fn check.
setLogger_NoCheck(fn) == [ReturnedHub EXCEPT !.logger = fn]

\* hub.setLogger(fn)
setLogger(fn) ==
    IF TypeOf(fn) # "function" THEN Thrown("TypeError")
    ELSE [ReturnedHub EXCEPT !.logger = fn]

(***************************************************************************)
(* hub.emit(eventName, data), one stack frame per call in flight           *)
(***************************************************************************)
NoFrame ==
    [kind |-> "none", eventName |-> Undefined, data |-> Undefined, listeners |-> <<>>,
     i |-> 0, errors |-> <<>>, invoked |-> <<>>, atCall |-> EmptyObject,
     logged |-> <<>>, console |-> <<>>, fn |-> Undefined, args |-> <<>>,
     role |-> "none"]

\* Mutant: one listeners array per channel, shared by the emit calls in flight.
Snapshot_Shared(eventName) ==
    LET inFlight == {j \in 1..Len(stack) :
                        stack[j].kind = "emit" /\ stack[j].eventName = eventName}
    IN  IF inFlight = {} THEN ObjectValues(callbacks[eventName.s])
        ELSE stack[CHOOSE j \in inFlight : \A k \in inFlight : k <= j].listeners

\* const cbs = callbacks[eventName]; const listeners = Object.values(cbs)
Snapshot(eventName) == ObjectValues(callbacks[eventName.s])

\* The frame of an emit call that passed validation.  i counts the listeners
\* forEach is done with; errors holds, for each caught error, the index of the
\* listener that threw it.  console holds what the call has written with
\* console.error: one line for each error caught, with the index of the listener
\* that threw it, and the summary line with the number of errors.  invoked,
\* logged and atCall are history: the calls of listeners and of the logger the
\* pass has made, and callbacks[eventName] as it was when emit was called.
EmitFrame(eventName, data) ==
    [NoFrame EXCEPT !.kind = "emit", !.eventName = eventName, !.data = data,
                    !.listeners = Snapshot(eventName),
                    !.atCall = callbacks[eventName.s]]

\* User code in flight: a listener callback or a custom logger, called with args.
UserFrame(fn, args, role) ==
    [NoFrame EXCEPT !.kind = "user", !.fn = fn, !.args = args, !.role = role]

\* A once wrapper in flight, waiting for callback(data) to come back.
WrapperFrame(fn, args) ==
    [NoFrame EXCEPT !.kind = "wrapper", !.fn = fn, !.args = args, !.role = "listener"]

\* The frames a call fn(...args) pushes.  The wrapper of once calls
\* callback(data) as its first statement.
Invoke(fn, args, role) ==
    IF IsWrapper(fn)
    THEN <<WrapperFrame(fn, args), UserFrame(fn.w[1], <<args[1]>>, role)>>
    ELSE <<UserFrame(fn, args, role)>>

\* Mutant: the filter of setDebug([...]) is ignored, only debugAll is tested.
Logged_AllOnly(eventName, data) ==
    IF debugAll THEN <<[fn |-> logger, args |-> <<eventName, data>>]>> ELSE <<>>

\* if (debugAll || ...) { logger(eventName, data) }: the calls of the logger
\* that emit makes
Logged(eventName, data) ==
    IF DebugEnabled(eventName)
    THEN <<[fn |-> logger, args |-> <<eventName, data>>]>>
    ELSE <<>>

\* The frames the call of the logger pushes: the default logger writes a line to
\* console.log and returns, a custom logger is user code.
LoggerCall(eventName, data) ==
    IF Logged(eventName, data) # <<>> /\ logger # DefaultLogger
    THEN Invoke(logger, <<eventName, data>>, "logger")
    ELSE <<>>

\* Mutant: forEach over the live object instead of the snapshot.
ListenerCall_Live(f) ==
    LET live == ObjectValues(callbacks[f.eventName.s])
    IN  [fn |-> IF f.i + 1 <= Len(live) THEN live[f.i + 1] ELSE f.listeners[f.i + 1],
         arg |-> f.data]

\* Mutant: cb() called without the payload.
ListenerCall_NoData(f) == [fn |-> f.listeners[f.i + 1], arg |-> Undefined]

\* cb(data), for the listener forEach has reached
ListenerCall(f) == [fn |-> f.listeners[f.i + 1], arg |-> f.data]

\* forEach has more listeners to call
MoreListeners(f) == f.i < Len(f.listeners)

\* The listener returned: forEach goes on with the next one.
ListenerReturned(f) == [caught |-> TRUE, frame |-> [f EXCEPT !.i = @ + 1]]

\* Mutant: no try/catch around cb(data).
ListenerThrew_NoCatch(f) == [caught |-> FALSE, frame |-> f]

\* Mutant: forEach calls a listener again when it throws for the first time.
ListenerThrew_RetryOnce(f) ==
    [caught |-> TRUE,
     frame |-> [f EXCEPT !.i = IF \E j \in 1..Len(f.errors) : f.errors[j] = f.i + 1
                               THEN @ + 1 ELSE @,
                         !.errors = Append(@, f.i + 1),
                         !.console = Append(@, [line |-> "error", n |-> f.i + 1])]]

\* catch (error) { errors.push(error); console.error(...) }
ListenerThrew(f) ==
    [caught |-> TRUE,
     frame |-> [f EXCEPT !.i = @ + 1, !.errors = Append(@, f.i + 1),
                         !.console = Append(@, [line |-> "error", n |-> f.i + 1])]]

\* Mutant: return errors.length === 0 && listeners.length > 0
EmitResult_NoErrors(f) == Len(f.errors) = 0 /\ Len(f.listeners) > 0

\* return listeners.length > 0
EmitResult(f) == Len(f.listeners) > 0

\* Mutant: the summary is written whenever there were errors.
ErrorSummary_NoDebug(f) == Len(f.errors) > 0

\* errors.length > 0 && (debugAll || ...): console.error(`[nexus] ${n} error(s) ...`)
ErrorSummary(f) == Len(f.errors) > 0 /\ DebugEnabled(f.eventName)

\* The frame of an emit call at its return statement.
EmitEnd(f) ==
    IF ErrorSummary(f)
    THEN [f EXCEPT !.console = Append(@, [line |-> "summary", n |-> Len(f.errors)])]
    ELSE f

(***************************************************************************)
(* Steps                                                                   *)
(***************************************************************************)
Top == stack[Len(stack)]
Pop(n) == SubSeq(stack, 1, Len(stack) - n)

EmitDepth == Cardinality({i \in 1..Len(stack) : stack[i].kind = "emit"})

\* One hub method call of user code.
Call(op, args) == [op |-> op, args |-> args]

\* User code has a hub to call unless createNexusHub threw.
HubReturned == ~(last.op = "createNexusHub" /\ last.err # "none")

\* User code runs at the top level and inside listeners and custom loggers, and
\* may make any call.  A scripted caller makes the calls of its script, in order,
\* and its callbacks call nothing.
CanCall(op, args) ==
    /\ HubReturned
    /\ IF script = <<>>
       THEN calls < MaxCalls /\ (IF stack = <<>> THEN TRUE ELSE Top.kind = "user")
       ELSE stack = <<>> /\ calls < Len(script) /\ script[calls + 1] = Call(op, args)

Event(op, args, r, f) ==
    [op |-> op, args |-> args, err |-> r.err, bool |-> r.bool, num |-> r.num,
     list |-> r.list, ref |-> r.ref, frame |-> f]

\* The steps of a scripted run are kept.
Record == hist' = IF script = <<>> THEN hist ELSE Append(hist, last')

\* A method call that runs to its end in one step.
Finish(op, args, r) ==
    /\ callbacks' = r.callbacks
    /\ debugAll' = r.debugAll
    /\ debugFilter' = r.debugFilter
    /\ logger' = r.logger
    /\ last' = Event(op, args, r, NoFrame)
    /\ calls' = calls + 1
    /\ Record
    /\ UNCHANGED <<eventNames, validEvents, stack, script>>

\* The values of each kind that the properties range over.
EventArgs == {Str(<<"a">>), Str(<<"b">>), Str(<<"x">>), Num(<<"7">>), Undefined}
IdArgs == {Str(<<"k">>), Str(<<"1">>), Str(<<" ">>), Str(<<>>), Str(<<" ", " ">>),
           Num(<<"7">>), Undefined}
CallbackArgs == {Fn("f1"), Fn("f2"), Str(<<"n">>), Undefined}
DataArgs == {Str(<<"p">>), Str(<<"q">>), Undefined}

\* The calls user code makes: every call with valid arguments over two channels,
\* two ids and two callbacks on the first channel and one of each on the second,
\* and calls with an undeclared channel, a bad id or a bad callback.
A == Str(<<"a">>)
B == Str(<<"b">>)
X == Str(<<"x">>)
K == Str(<<"k">>)
One == Str(<<"1">>)

OnCalls ==
    ({A} \X {K, One} \X {Fn("f1"), Fn("f2")})
      \cup {<<B, K, Fn("f1")>>, <<X, K, Fn("f1")>>, <<A, Str(<<" ">>), Fn("f1")>>,
            <<A, Str(<<>>), Fn("f1")>>, <<A, Num(<<"7">>), Fn("f1")>>,
            <<A, K, Str(<<"n">>)>>, <<X, Str(<<" ">>), Str(<<"n">>)>>}

\* The calls of once: fewer than the calls of on, with one bad argument of each
\* kind.
OnceCalls ==
    {<<A, K, Fn("f1")>>, <<A, K, Fn("f2")>>, <<A, One, Fn("f1")>>, <<B, K, Fn("f1")>>,
     <<X, K, Fn("f1")>>, <<A, Str(<<" ">>), Fn("f1")>>, <<A, K, Str(<<"n">>)>>}

OffCalls ==
    ({A} \X {K, One, Undefined})
      \cup {<<B, K>>, <<X, K>>, <<A, Num(<<"7">>)>>}

ChannelCalls == {A, B, X, Undefined}

\* The channels of the calls of listenerCount and listeners.
QueryCalls == {A, X, Undefined}

EmitCalls ==
    {<<A, Str(<<"p">>)>>, <<A, Undefined>>, <<B, Str(<<"p">>)>>, <<X, Str(<<"p">>)>>,
     <<Undefined, Undefined>>}

DebugCalls ==
    {Bool(TRUE), Bool(FALSE), Arr(<<A>>), Arr(<<B>>), Arr(<<A, X>>), Str(<<"a">>)}

LoggerCalls == {Fn("lg"), Undefined}

\* A scripted caller makes the calls of its script and no others.
Repertoire(op, free) ==
    IF script = <<>> THEN free
    ELSE {script[i].args : i \in {j \in 1..Len(script) : script[j].op = op}}

CallOn ==
    \E c \in Repertoire("on", OnCalls) :
        CanCall("on", c) /\ Finish("on", c, on(c[1], c[2], c[3]))

CallOnce ==
    \E c \in Repertoire("once", OnceCalls) :
        CanCall("once", c) /\ Finish("once", c, once(c[1], c[2], c[3]))

CallOff ==
    \E c \in OffCalls :
        CanCall("off", c) /\ Finish("off", c, off(c[1], c[2]))

CallClear ==
    \E eventName \in ChannelCalls :
        CanCall("clear", <<eventName>>) /\ Finish("clear", <<eventName>>, clear(eventName))

CallListenerCount ==
    \E eventName \in {c[1] : c \in Repertoire("listenerCount", {<<e>> : e \in QueryCalls})} :
        /\ CanCall("listenerCount", <<eventName>>)
        /\ Finish("listenerCount", <<eventName>>, listenerCount(eventName))

CallListeners ==
    \E eventName \in QueryCalls :
        /\ CanCall("listeners", <<eventName>>)
        /\ Finish("listeners", <<eventName>>, listeners(eventName))

CallEventNames == CanCall("eventNames", <<>>) /\ Finish("eventNames", <<>>, hubEventNames)

CallSetDebug ==
    \E enabled \in DebugCalls :
        CanCall("setDebug", <<enabled>>) /\ Finish("setDebug", <<enabled>>, setDebug(enabled))

CallSetLogger ==
    \E fn \in LoggerCalls :
        CanCall("setLogger", <<fn>>) /\ Finish("setLogger", <<fn>>, setLogger(fn))

\* if (!validEvents.has(eventName)) throw new Error(...), else the frames emit
\* pushes up to its first call of user code
emit(eventName, data) ==
    IF ~ValidEvent(eventName) THEN [err |-> "Error", frames |-> <<>>]
    ELSE [err |-> "none",
          frames |-> <<[EmitFrame(eventName, data) EXCEPT
                          !.logged = Logged(eventName, data)]>>
                       \o LoggerCall(eventName, data)]

\* hub.emit(eventName, data) up to the first call of user code
CallEmit ==
    \E c \in Repertoire("emit", EmitCalls) :
        /\ CanCall("emit", c)
        /\ EmitDepth < MaxDepth
        /\ LET r == emit(c[1], c[2])
           IN  IF r.err # "none"
               THEN Finish("emit", c, Thrown(r.err))
               ELSE /\ stack' = stack \o r.frames
                    /\ last' = Event("emit:enter", c, Returned, r.frames[1])
                    /\ calls' = calls + 1
                    /\ Record
                    /\ UNCHANGED <<eventNames, validEvents, callbacks, debugAll,
                                   debugFilter, logger, script>>

\* forEach calls the next listener of the snapshot
Dispatch ==
    /\ stack # <<>>
    /\ Top.kind = "emit"
    /\ MoreListeners(Top)
    /\ LET c == ListenerCall(Top)
       IN  /\ stack' = Pop(1) \o <<[Top EXCEPT !.invoked = Append(@, c)]>>
                              \o Invoke(c.fn, <<c.arg>>, "listener")
           /\ last' = Event("dispatch", <<c.fn, c.arg>>,
                            [Returned EXCEPT !.list = Invoke(c.fn, <<c.arg>>, "listener")],
                            NoFrame)
    /\ Record
    /\ UNCHANGED <<eventNames, validEvents, callbacks, debugAll, debugFilter,
                   logger, calls, script>>

\* The emit frame under the user code at the top, and the frames above it.
Under == IF stack[Len(stack) - 1].kind = "wrapper" THEN 3 ELSE 2

\* The listener forEach is calling.
Current(f) == f.listeners[f.i + 1]

\* Mutant: the wrapper removes itself in a finally block.
WrapperAfter_Finally(w, threw) == off(w.w[2], w.w[3])

\* What follows callback(data) in the wrapper of once: hub.off(eventName, id)
\* when the callback has returned, nothing when it has thrown.
WrapperAfter(w, threw) == IF threw THEN Returned ELSE off(w.w[2], w.w[3])

\* The end of a listener's call as emit sees it: forEach goes on, or (with no
\* try/catch around the call) the error leaves emit.
Resume(out, r, op) ==
    IF out.caught
    THEN /\ stack' = Pop(Under) \o <<out.frame>>
         /\ last' = Event(op, <<Current(stack[Len(stack) - Under + 1])>>, Returned, NoFrame)
         /\ callbacks' = r.callbacks
    ELSE /\ stack' = Pop(Under)
         /\ last' = Event("emit", <<out.frame.eventName, out.frame.data>>,
                          Thrown("thrown"), out.frame)
         /\ callbacks' = r.callbacks

\* User code returns.  A logger returns into emit, which starts forEach; a
\* listener returns into forEach, or into its once wrapper, which then runs
\* hub.off(eventName, id) and returns (or throws what off throws).
UserReturn ==
    /\ stack # <<>>
    /\ Top.kind = "user"
    /\ IF Top.role = "logger"
       THEN /\ stack' = Pop(1)
            /\ last' = Event("return", <<Top.fn>>, Returned, NoFrame)
            /\ UNCHANGED callbacks
       ELSE LET f == stack[Len(stack) - Under + 1]
                w == stack[Len(stack) - 1].fn
                r == IF Under = 3 THEN WrapperAfter(w, FALSE) ELSE Returned
            IN  IF r.err = "none"
                THEN Resume(ListenerReturned(f), r, "return")
                ELSE Resume(ListenerThrew(f), r, "throw")
    /\ Record
    /\ UNCHANGED <<eventNames, validEvents, debugAll, debugFilter, logger, calls, script>>

\* User code throws.  Nothing catches what a logger throws: it leaves emit.  What
\* a listener throws passes through a once wrapper and is caught by forEach's
\* try/catch.
UserThrow ==
    /\ stack # <<>>
    /\ Top.kind = "user"
    /\ IF Top.role = "logger"
       THEN /\ stack' = Pop(2)
            /\ last' = Event("emit", <<stack[Len(stack) - 1].eventName,
                                       stack[Len(stack) - 1].data>>,
                             Thrown("thrown"), stack[Len(stack) - 1])
            /\ UNCHANGED callbacks
       ELSE LET w == stack[Len(stack) - 1].fn
                r == IF Under = 3 THEN WrapperAfter(w, TRUE) ELSE Returned
            IN  Resume(ListenerThrew(stack[Len(stack) - Under + 1]), r, "throw")
    /\ Record
    /\ UNCHANGED <<eventNames, validEvents, debugAll, debugFilter, logger, calls, script>>

\* forEach is done: the error summary, and return listeners.length > 0
EmitReturn ==
    /\ stack # <<>>
    /\ Top.kind = "emit"
    /\ ~MoreListeners(Top)
    /\ stack' = Pop(1)
    /\ last' = Event("emit", <<Top.eventName, Top.data>>,
                     [Returned EXCEPT !.bool = EmitResult(Top)], EmitEnd(Top))
    /\ Record
    /\ UNCHANGED <<eventNames, validEvents, callbacks, debugAll, debugFilter,
                   logger, calls, script>>

\* What user code does to an array it holds: pop(), push('x'), arr[0] = 'x'.
Mutations(arr) ==
    {SubSeq(arr, 1, Len(arr) - 1), Append(arr, X), [arr EXCEPT ![1] = X]}

\* User code changes the array that the hub method it called last returned.
\* The change reaches the closure when that array is one the closure refers to.
MutateReturned ==
    /\ HubReturned
    /\ script = <<>>
    /\ IF stack = <<>> THEN TRUE ELSE Top.kind = "user"
    /\ last.op \in {"eventNames", "listeners"}
    /\ last.err = "none"
    /\ last.list # <<>>
    /\ \E arr \in Mutations(last.list) :
          /\ last' = [last EXCEPT !.op = "mutate", !.args = <<Str(<<last.op>>)>>,
                                  !.list = arr]
          /\ eventNames' = IF last.ref = "eventNames" THEN arr ELSE eventNames
    /\ UNCHANGED <<validEvents, callbacks, debugAll, debugFilter, logger, stack,
                   calls, script, hist>>

Init ==
    /\ eventNames = DeclaredNames
    /\ validEvents = Range(DeclaredNames)
    /\ callbacks = [k \in {n.s : n \in Range(DeclaredNames)} |-> EmptyObject]
    /\ debugAll = FALSE
    /\ debugFilter = NullFilter
    /\ logger = DefaultLogger
    /\ stack = <<>>
    /\ last = Event("createNexusHub", <<Arr(DeclaredNames)>>, Returned, NoFrame)
    /\ calls = 0
    /\ script = <<>>
    /\ hist = <<>>

Next ==
    \/ CallOn
    \/ CallOnce
    \/ CallOff
    \/ CallClear
    \/ CallListenerCount
    \/ CallListeners
    \/ CallEventNames
    \/ CallSetDebug
    \/ CallSetLogger
    \/ CallEmit
    \/ Dispatch
    \/ UserReturn
    \/ UserThrow
    \/ EmitReturn
    \/ MutateReturned

Spec == Init /\ [][Next]_vars

(***************************************************************************)
(* A scripted caller: the test "executes callback only once"               *)
(***************************************************************************)
\* hub.once(c, id, cb); hub.emit(c, p1); hub.listenerCount(c); hub.emit(c, p2)
OnceScripts ==
    {<<Call("once", <<c, id, cb>>), Call("emit", <<c, p1>>),
       Call("listenerCount", <<c>>), Call("emit", <<c, p2>>)>> :
        c \in {A, B}, id \in {K, One}, cb \in {Fn("f1"), Fn("f2")},
        p1 \in DataArgs, p2 \in DataArgs}

InitOnce ==
    /\ eventNames = DeclaredNames
    /\ validEvents = Range(DeclaredNames)
    /\ callbacks = [k \in {n.s : n \in Range(DeclaredNames)} |-> EmptyObject]
    /\ debugAll = FALSE
    /\ debugFilter = NullFilter
    /\ logger = DefaultLogger
    /\ stack = <<>>
    /\ last = Event("createNexusHub", <<Arr(DeclaredNames)>>, Returned, NoFrame)
    /\ calls = 0
    /\ script \in OnceScripts
    /\ hist = <<>>

NextOnce ==
    \/ CallOnce
    \/ CallEmit
    \/ CallListenerCount
    \/ Dispatch
    \/ UserReturn
    \/ UserThrow
    \/ EmitReturn

SpecOnce == InitOnce /\ [][NextOnce]_vars

(***************************************************************************)
(* A scripted caller that constructs the hub: createNexusHub(names), then  *)
(* hub.on(c, 'k', f1); hub.emit(c, p); hub.listenerCount()                 *)
(***************************************************************************)
CreateArgs ==
    {Str(<<"a">>), Num(<<"7">>), Undefined, Arr(<<>>), Arr(<<A>>), Arr(<<A, B>>),
     Arr(<<B, A>>), Arr(<<A, A>>), Arr(<<A, B, A>>), Arr(<<Num(<<"7">>), A>>),
     Arr(<<A, Num(<<"7">>)>>), Arr(<<Num(<<"7">>), Num(<<"7">>)>>),
     Arr(<<Undefined>>), Arr(<<Str(<<>>)>>), Arr(<<A, Str(<<>>)>>)}

CreateScripts ==
    {<<Call("createNexusHub", <<names>>), Call("on", <<c, K, Fn("f1")>>),
       Call("emit", <<c, p>>), Call("listenerCount", <<Undefined>>)>> :
        names \in CreateArgs, c \in {A, B, Str(<<>>)}, p \in DataArgs}

\* const hub = createNexusHub(names)
CallCreate ==
    \E c \in Repertoire("createNexusHub", {}) :
        /\ CanCall("createNexusHub", c)
        /\ LET h == createNexusHub(c[1])
           IN  /\ eventNames' = h.eventNames
               /\ validEvents' = h.validEvents
               /\ callbacks' = h.callbacks
               /\ debugAll' = h.debugAll
               /\ debugFilter' = h.debugFilter
               /\ logger' = h.logger
               /\ last' = Event("createNexusHub", c,
                                [Returned EXCEPT !.err = h.err, !.callbacks = h.callbacks],
                                NoFrame)
        /\ calls' = calls + 1
        /\ Record
        /\ UNCHANGED <<stack, script>>

\* The program before it calls createNexusHub.
InitCreate ==
    /\ eventNames = <<>>
    /\ validEvents = {}
    /\ callbacks = <<>>
    /\ debugAll = FALSE
    /\ debugFilter = NullFilter
    /\ logger = DefaultLogger
    /\ stack = <<>>
    /\ last = Event("start", <<>>, Returned, NoFrame)
    /\ calls = 0
    /\ script \in CreateScripts
    /\ hist = <<>>

NextCreate ==
    \/ CallCreate
    \/ CallOn
    \/ CallEmit
    \/ CallListenerCount
    \/ Dispatch
    \/ UserReturn
    \/ UserThrow
    \/ EmitReturn

SpecCreate == InitCreate /\ [][NextCreate]_vars

(***************************************************************************)
(* A caller that keeps the array it passed to createNexusHub: the closure  *)
(* variable eventNames is that array, validEvents and callbacks are built  *)
(* from it at construction.                                                *)
(***************************************************************************)
\* The caller changes its array: names.pop(), names.push('x'), names[0] = 'x'.
MutateNames ==
    /\ HubReturned
    /\ calls < MaxCalls
    /\ stack = <<>>
    /\ \E arr \in IF eventNames = <<>> THEN {<<X>>} ELSE Mutations(eventNames) :
          /\ eventNames' = arr
          /\ last' = Event("names", <<Arr(arr)>>, Returned, NoFrame)
    /\ calls' = calls + 1
    /\ UNCHANGED <<validEvents, callbacks, debugAll, debugFilter, logger, stack,
                   script, hist>>

NextArray ==
    \/ MutateNames
    \/ CallOn
    \/ CallClear
    \/ CallListenerCount
    \/ CallListeners
    \/ CallEventNames

SpecArray == Init /\ [][NextArray]_vars

(***************************************************************************)
(* Properties                                                              *)
(***************************************************************************)
EmitReturned == last.op = "emit" /\ last.err = "none"
EmitRaised == last.op = "emit" /\ last.err = "thrown"
EmitFrames == {stack[i] : i \in {j \in 1..Len(stack) : stack[j].kind = "emit"}}
Fns(invoked) == [j \in 1..Len(invoked) |-> invoked[j].fn]
Blank(chars) == \A i \in 1..Len(chars) : chars[i] = " "

\* C1 (fault isolation): an emit on a declared channel that has called a listener
\* returns, whatever its listeners throw: an error leaves emit only before the
\* first listener is called.  When emit returns, every listener of the snapshot
\* has been called exactly once, in snapshot order, the ones before and the ones
\* after a listener that threw included, and every error is from one of them.
C1_FaultIsolation ==
    /\ EmitRaised => last.frame.invoked = <<>>
    /\ EmitReturned =>
         /\ Fns(last.frame.invoked) = last.frame.listeners
         /\ \A j \in 1..Len(last.frame.errors) :
               last.frame.errors[j] \in 1..Len(last.frame.listeners)
    /\ \A f \in EmitFrames :
         /\ Len(f.invoked) \in {f.i, f.i + 1}
         /\ \A j \in 1..Len(f.errors) : f.errors[j] <= f.i

\* C1 witness: an emit over two listeners returned; the first one threw and the
\* second one was called all the same.
C1_Witness ==
    /\ EmitReturned
    /\ Len(last.frame.listeners) = 2
    /\ last.frame.errors = <<1>>
    /\ Len(last.frame.invoked) = 2

\* C2 (snapshot dispatch): the callbacks an emit calls are the callbacks that
\* were registered on the channel when emit was called, each once and in that
\* order, whatever on/once/off/clear calls the listeners make during the pass:
\* at every moment of a pass the calls made are a prefix of them, and when emit
\* returns they are all of them.
C2_SnapshotDispatch ==
    /\ EmitReturned => Fns(last.frame.invoked) = ObjectValues(last.frame.atCall)
    /\ \A f \in EmitFrames :
         /\ Len(f.invoked) <= Len(f.atCall)
         /\ Fns(f.invoked) = SubSeq(ObjectValues(f.atCall), 1, Len(f.invoked))

\* C2 witness: forEach calls the second listener of its snapshot although the
\* first listener has removed every listener of the channel.
C2_Witness ==
    /\ last.op = "dispatch"
    /\ \E f \in EmitFrames :
         /\ f.i = 1
         /\ Len(f.invoked) = 2
         /\ ~IsWrapper(f.listeners[1])
         /\ callbacks[f.eventName.s] = EmptyObject

\* The calls of cb by the dispatch steps of a scripted run, as argument lists.
RunsOf(cb) ==
    LET ran(h) == h.op = "dispatch" /\ \E j \in 1..Len(h.list) :
                      h.list[j].kind = "user" /\ h.list[j].fn = cb
        steps == SelectSeq(hist, ran)
    IN  [n \in 1..Len(steps) |->
            steps[n].list[CHOOSE j \in 1..Len(steps[n].list) :
                             steps[n].list[j].kind = "user"].args]

ScriptDone == script # <<>> /\ calls = Len(script) /\ stack = <<>>

\* C3 (once semantics): when the caller has run once(c, id, cb); emit(c, p1);
\* listenerCount(c); emit(c, p2) on a new hub, with a cb that calls nothing, cb
\* has been called exactly once, with p1, and listenerCount(c) returned 0.
C3_OnceFiresOnce ==
    ScriptDone =>
        /\ RunsOf(script[1].args[3]) = << <<script[2].args[2]>> >>
        /\ \A j \in 1..Len(hist) : hist[j].op = "listenerCount" => hist[j].num = 0

\* The same with a cb that does not throw: not a claim of the specification, it
\* shows what C3 rests on.
C3_OnceFiresOnceUnlessThrown ==
    (ScriptDone /\ \A j \in 1..Len(hist) : hist[j].op # "throw") =>
        /\ RunsOf(script[1].args[3]) = << <<script[2].args[2]>> >>
        /\ \A j \in 1..Len(hist) : hist[j].op = "listenerCount" => hist[j].num = 0

\* C4: when the call of a once wrapper has ended, by the return or by the throw
\* of its callback, the listener (channel, id) is no longer registered.
C4_OnceAlwaysRemoved ==
    (last.op \in {"return", "throw"} /\ IsWrapper(last.args[1])) =>
        ~HasOwn(callbacks[last.args[1].w[2].s], last.args[1].w[3].s)

\* C5: emit returns true if and only if the channel had a listener when emit was
\* called, whether or not listeners threw or changed the registry in the pass.
C5_EmitResult ==
    EmitReturned => (last.bool <=> Len(ObjectKeys(last.frame.atCall)) > 0)

\* C5 witness: emit returns true although a listener threw and no listener is
\* registered on the channel any more.
C5_Witness ==
    /\ EmitReturned
    /\ last.bool
    /\ last.frame.errors # <<>>
    /\ ~IsWrapper(last.frame.listeners[1])
    /\ callbacks[last.frame.eventName.s] = EmptyObject

\* C6: every emit(c, p) that returns has called each callback that on had
\* registered on c when emit was called exactly once for its registration, with
\* exactly p (undefined when the payload is omitted); the user code of a
\* listener runs with the callback and the payload of the call.
C6_OnThenEmit ==
    /\ EmitReturned =>
         /\ Len(last.frame.invoked) = Len(last.frame.atCall)
         /\ \A j \in 1..Len(last.frame.atCall) :
               ~IsWrapper(last.frame.atCall[j].value) =>
                   last.frame.invoked[j] =
                       [fn |-> last.frame.atCall[j].value, arg |-> last.args[2]]
    /\ \A j \in 2..Len(stack) :
         (stack[j].kind = "user" /\ stack[j - 1].kind = "emit"
            /\ stack[j].role = "listener") =>
             /\ stack[j].fn = stack[j - 1].atCall[stack[j - 1].i + 1].value
             /\ stack[j].args = <<stack[j - 1].data>>

\* C6 witness: an emit with a payload returned after calling a callback
\* registered with on.
C6_Witness ==
    /\ EmitReturned
    /\ last.args[2] = Str(<<"p">>)
    /\ last.frame.invoked # <<>>
    /\ ~IsWrapper(last.frame.invoked[1].fn)

\* What a call left the closure with.
Unchanged(r) ==
    /\ r.callbacks = callbacks
    /\ r.debugAll = debugAll
    /\ r.debugFilter = debugFilter
    /\ r.logger = logger

Registered(eventName, id) ==
    /\ ValidEvent(eventName)
    /\ TypeOf(id) = "string"
    /\ HasOwn(callbacks[eventName.s], id.s)

\* The value that on / once store for a callback.
Stored(op, c) == IF op = "once" THEN Wrapper(c[3], c[1], c[2]) ELSE c[3]

\* C7 (last writer wins): a step that calls on or once with a callback for a
\* (channel, id) that is registered raises no error, leaves the ids registered on
\* the channel as they were (the same number, this id once), and stores the new
\* callback under the id: the snapshot of an emission that starts after the step
\* holds the new callback at that id and the replaced one nowhere, unless it is
\* also registered under another id.  No id is ever registered twice.
C7_Step ==
    (last'.op \in {"on", "once"} /\ Len(last'.args) = 3) =>
        LET e == last'.args[1]
            id == last'.args[2]
            cb == last'.args[3]
        IN  (Registered(e, id) /\ TypeOf(cb) = "function") =>
                \E n \in DOMAIN callbacks :
                    LET old == GetOwn(callbacks[n], id.s)
                        new == Stored(last'.op, <<e, id, cb>>)
                        now == callbacks'[n]
                        next == ObjectValues(callbacks[n])'
                    IN  /\ n = e.s
                        /\ last'.err = "none"
                        /\ Len(now) = Len(callbacks[n])
                        /\ Cardinality({j \in 1..Len(now) : now[j].key = id.s}) = 1
                        /\ Len(next) = Len(now)
                        /\ \A j \in 1..Len(now) :
                              /\ now[j].key = id.s => next[j] = new
                              /\ (next[j] = old /\ old # new) =>
                                    (now[j].key # id.s /\ callbacks[n][j].value = old)

C7_UniqueIds ==
    \A n \in DOMAIN callbacks :
        \A i, j \in 1..Len(callbacks[n]) :
            callbacks[n][i].key = callbacks[n][j].key => i = j

C7_LastWriterWins == []C7_UniqueIds /\ [][C7_Step]_vars

\* C7 witness: once has just replaced, under one id, the callback that on had
\* registered, and the channel has one listener.
C7_Witness ==
    /\ last.op = "once"
    /\ last.err = "none"
    /\ calls = 2
    /\ Len(callbacks[last.args[1].s]) = 1
    /\ IsWrapper(callbacks[last.args[1].s][1].value)

\* C8: a step that calls off(c, id) with a string id removes the listener
\* (c, id), if there is one, and nothing else: the other listeners of c keep
\* their callbacks and their order, and the other channels are unchanged; with an
\* id that is not registered on c it raises no error and changes nothing.  A step
\* that calls off(c) with no id empties c and leaves the other channels
\* unchanged.
C8_Step ==
    LET c == last'.args
        before == callbacks[c[1].s]
    IN  (last'.op = "off" /\ ValidEvent(c[1])) =>
            /\ \A n \in DOMAIN callbacks \ {c[1].s} : callbacks'[n] = callbacks[n]
            /\ DOMAIN callbacks' = DOMAIN callbacks
            /\ c[2] = Undefined => (last'.err = "none" /\ callbacks'[c[1].s] = EmptyObject)
            /\ TypeOf(c[2]) = "string" =>
                  /\ last'.err = "none"
                  /\ callbacks'[c[1].s] =
                        SelectSeq(before, LAMBDA q : q.key # c[2].s)
                  /\ ~HasOwn(before, c[2].s) => callbacks' = callbacks
                  /\ HasOwn(before, c[2].s) =>
                        Len(callbacks'[c[1].s]) = Len(before) - 1

C8_OffFrame == [][C8_Step]_vars

\* C8 witness: off('a', 'k') has returned inside a listener of an emission whose
\* snapshot had 'k' and another id; the other id is still registered.
C8_Witness ==
    /\ last.op = "off"
    /\ last.err = "none"
    /\ last.args = <<A, K>>
    /\ calls = 4
    /\ \E f \in EmitFrames : f.eventName = A /\ Len(f.atCall) = 2
    /\ Len(callbacks[A.s]) = 1

\* C9: a step that calls on, once, off, emit, clear(c), listenerCount(c) or
\* listeners(c) with a channel that is not declared throws the Error of an
\* unknown channel, whatever the other arguments; it changes neither the registry
\* nor the debug configuration and calls no listener and no logger.
C9_Step ==
    LET c == last'.args
    IN  (/\ last'.op \in {"on", "once", "off", "emit", "clear", "listenerCount",
                          "listeners"}
         /\ ~ValidEvent(c[1])
         /\ (c[1] = Undefined => last'.op \in {"on", "once", "off", "emit"})) =>
            /\ last'.err = "Error"
            /\ UNCHANGED <<callbacks, debugAll, debugFilter, logger, stack>>

C9_UnknownChannel == [][C9_Step]_vars

\* C9 witness: emit on an undeclared channel has thrown while debug is enabled
\* for every channel, a custom logger is set and a listener is registered.
C9_Witness ==
    /\ last.op = "emit"
    /\ last.args[1] = X
    /\ last.err = "Error"
    /\ debugAll
    /\ logger # DefaultLogger
    /\ stack = <<>>

\* C10: a step that calls on(c, id, cb) on a declared channel throws a TypeError
\* when id is not a string, is empty or is made of white space only, and when cb
\* is not a function, and leaves the registry as it was; a call of on that
\* returns had a string id with a character that is not white space, and a
\* function.
C10_Step ==
    LET c == last'.args
    IN  (last'.op = "on" /\ ValidEvent(c[1])) =>
            IF TypeOf(c[2]) # "string" \/ Blank(c[2].s) \/ TypeOf(c[3]) # "function"
            THEN last'.err = "TypeError" /\ callbacks' = callbacks
            ELSE last'.err = "none"

C10_OnValidation == [][C10_Step]_vars

\* C10 witness: on with a callback that is no function has thrown a TypeError
\* and the listener registered under that id is still there.
C10_Witness ==
    /\ last.op = "on"
    /\ last.err = "TypeError"
    /\ last.args = <<A, K, Str(<<"n">>)>>
    /\ HasOwn(callbacks[A.s], K.s)
    /\ GetOwn(callbacks[A.s], K.s) = Fn("f1")

\* What makes an argument of createNexusHub unacceptable.
NotAnArray(names) == ~IsArray(names)
Empty(names) == IsArray(names) /\ names.w = <<>>
Duplicates(names) == IsArray(names) /\ Cardinality(Range(names.w)) # Len(names.w)
NonString(names) ==
    IsArray(names) /\ \E i \in 1..Len(names.w) : TypeOf(names.w[i]) # "string"

\* C11: createNexusHub fails with the InvalidArgument kind of error, the
\* TypeError, and returns no hub, when its argument is not an array, is an empty
\* array, has a name twice or has an element that is not a string; with every
\* other argument it returns a hub whose declared channels have no listeners and
\* whose debug mode is off.
C11_Construction ==
    last.op = "createNexusHub" =>
        LET names == last.args[1]
        IN  IF NotAnArray(names) \/ Empty(names) \/ Duplicates(names) \/ NonString(names)
            THEN last.err = InvalidArgument /\ ~HubReturned
            ELSE /\ last.err = "none"
                 /\ HubReturned
                 /\ validEvents = Range(names.w)
                 /\ \A n \in Range(names.w) : callbacks[n.s] = EmptyObject
                 /\ ~debugAll
                 /\ debugFilter = NullFilter

\* The classes of the errors createNexusHub throws: not a claim of the
\* specification, it shows what C11 rests on.
C11_ConstructionByClass ==
    last.op = "createNexusHub" =>
        LET names == last.args[1]
        IN  IF NotAnArray(names) THEN last.err = "TypeError"
            ELSE IF Empty(names) \/ Duplicates(names) THEN last.err = "Error"
            ELSE IF NonString(names) THEN last.err = "TypeError"
            ELSE /\ last.err = "none"
                 /\ \A n \in Range(names.w) : callbacks[n.s] = EmptyObject
                 /\ ~debugAll
                 /\ debugFilter = NullFilter

\* The ids of a channel in the order emit's snapshot has their callbacks, and
\* the callback forEach calls next.
IdsOf(n) == ObjectKeys(callbacks[n])
NextOf(f) == f.atCall[f.i + 1].value

\* C12 (dispatch order): the listeners of a channel are dispatched in the order
\* in which their ids were first registered on it, whatever non-empty strings
\* the ids are: a step that registers an id that is not registered on the
\* channel puts it after all the ids registered there, a step that registers a
\* registered id leaves the order as it is, and forEach calls the listeners one
\* at a time in that order.
C12_Step ==
    /\ (last'.op \in {"on", "once"} /\ last'.err = "none") =>
          ObjectKeys(callbacks'[last'.args[1].s]) =
              IF HasOwn(callbacks[last'.args[1].s], last'.args[2].s)
              THEN IdsOf(last'.args[1].s)
              ELSE Append(IdsOf(last'.args[1].s), last'.args[2].s)
    /\ last'.op = "dispatch" =>
          /\ last'.args[1] = NextOf(Top)
          /\ Len(stack') > Len(stack)

C12_RegistrationOrder == [][C12_Step]_vars

\* The order the code keeps: not a claim of the specification, it shows what C12
\* rests on.  An id that is the decimal form of an integer goes before every id
\* that is not, after the smaller and before the greater ones of its kind.
C12_StepByKey ==
    (last'.op \in {"on", "once"} /\ last'.err = "none") =>
        LET n == last'.args[1].s
            id == last'.args[2].s
            now == callbacks'[n]
        IN  IF HasOwn(callbacks[n], id) THEN ObjectKeys(now) = IdsOf(n)
            ELSE IF ~IsIntegerIndex(id) THEN ObjectKeys(now) = Append(IdsOf(n), id)
            ELSE \E j \in 1..Len(now) :
                    /\ now[j].key = id
                    /\ [i \in 1..Len(now) - 1 |->
                           IF i < j THEN now[i].key ELSE now[i + 1].key] = IdsOf(n)
                    /\ \A i \in 1..Len(now) :
                          i < j <=> (IsIntegerIndex(now[i].key)
                                       /\ ToNumber(now[i].key) < ToNumber(id))

C12_OrderByKey == [][C12_StepByKey]_vars

\* What the latest setting of setDebug asked for, for a channel.
Asked(enabled, eventName) ==
    enabled = Bool(TRUE) \/ (IsArray(enabled) /\ eventName \in Range(enabled.w))

\* C13 (debug logging): debug is enabled for a channel if and only if the
\* latest setDebug that returned was setDebug(true) or setDebug of a list that
\* has the channel (and is off before any setting).  An emit(c, p) on a declared
\* channel calls the active logger once with (c, p) if debug is enabled for c,
\* listeners or not, and never if it is not; the call is made before any
\* listener of the pass is called, and no other call of the logger is made, in
\* particular none for a listener that throws.
C13_Step ==
    /\ last'.op = "emit:enter" =>
          /\ last'.frame.logged =
                IF DebugEnabled(last'.args[1])
                THEN <<[fn |-> logger, args |-> last'.args]>>
                ELSE <<>>
          /\ (DebugEnabled(last'.args[1]) /\ logger # DefaultLogger) =>
                /\ stack'[Len(stack')] = UserFrame(logger, last'.args, "logger")
                /\ stack'[Len(stack') - 1] = last'.frame
          /\ last'.frame.invoked = <<>>
    /\ IF last'.op = "setDebug" /\ last'.err = "none"
       THEN \A c \in validEvents : DebugEnabled(c)' <=> Asked(last'.args[1], c)
       ELSE UNCHANGED <<debugAll, debugFilter>>
    /\ \A j \in 1..Len(stack) :
          (j <= Len(stack') /\ stack[j].kind = "emit") =>
              stack'[j].logged = stack[j].logged

C13_Logged ==
    /\ last.op = "createNexusHub" => \A c \in validEvents : ~DebugEnabled(c)
    /\ \A j \in 1..Len(stack) :
          (stack[j].kind = "user" /\ stack[j].role = "logger") =>
              /\ j > 1
              /\ stack[j - 1].kind = "emit"
              /\ stack[j - 1].invoked = <<>>
              /\ stack[j - 1].logged = <<[fn |-> stack[j].fn, args |-> stack[j].args]>>
    /\ \A f \in EmitFrames : Len(f.logged) <= 1
    /\ last.op = "emit" /\ last.err # "Error" => Len(last.frame.logged) <= 1

C13_DebugLogging == []C13_Logged /\ [][C13_Step]_vars

\* C13 witness: emit on a channel that has no listener has called the custom
\* logger, debug being enabled by a list that has the channel.
C13_Witness ==
    /\ last.op = "emit:enter"
    /\ last.frame.listeners = <<>>
    /\ ~debugFilter.null
    /\ Len(last.frame.logged) = 1
    /\ Top.kind = "user"
    /\ Top.role = "logger"
    /\ Top.args = last.args

\* C14 (re-entrant emit): an emit that a listener calls during a pass takes its
\* own snapshot of the registry as it is at that call and leaves the frames of
\* the passes in flight as they are; it has returned before the listener that
\* called it returns or throws; while anything runs above a pass, the pass
\* does not change, and its snapshot never changes: it goes on with the
\* listeners that are left of the snapshot it took.
C14_Step ==
    /\ last'.op = "emit:enter" =>
          /\ last'.frame.listeners = ObjectValues(callbacks[last'.args[1].s])
          /\ SubSeq(stack', 1, Len(stack)) = stack
          /\ stack'[Len(stack) + 1] = last'.frame
    /\ last'.op \in {"return", "throw"} =>
          /\ Top.kind = "user"
          /\ Len(stack') < Len(stack)
          /\ \A j \in 1..Len(stack') : stack'[j].kind = "emit" => stack[j].kind = "emit"
    /\ (last'.op = "emit" /\ last'.err # "Error" /\ stack' # <<>>) =>
          /\ stack'[Len(stack')].kind = "user"
          /\ stack' = SubSeq(stack, 1, Len(stack'))
    /\ \A j \in 1..Len(stack) :
          (j < Len(stack) /\ j < Len(stack')) => stack'[j] = stack[j]
    /\ \A j \in 1..Len(stack) :
          (j <= Len(stack') /\ stack[j].kind = "emit") =>
              /\ stack'[j].kind = "emit"
              /\ stack'[j].listeners = stack[j].listeners
              /\ stack'[j].i \in {stack[j].i, stack[j].i + 1}

C14_Frames ==
    /\ \A f \in EmitFrames :
          /\ f.listeners = ObjectValues(f.atCall)
          /\ f.i <= Len(f.listeners)
          /\ Fns(f.invoked) = SubSeq(f.listeners, 1, Len(f.invoked))
    /\ \A j \in 1..Len(stack) :
          (stack[j].kind = "emit" /\ j < Len(stack)) =>
              /\ stack[j + 1].kind \in {"user", "wrapper"}
              /\ Len(stack[j].invoked) = stack[j].i + 1 \/ stack[j + 1].role = "logger"

C14_Reentrant == []C14_Frames /\ [][C14_Step]_vars

\* C14 witness: an emit that a listener called on the channel of the pass in
\* flight has returned into that listener, and its snapshot was not the
\* snapshot of the pass in flight.
C14_Witness ==
    /\ last.op = "emit"
    /\ last.err = "none"
    /\ Len(stack) >= 2
    /\ stack[1].kind = "emit"
    /\ stack[1].eventName = last.frame.eventName
    /\ stack[1].listeners # last.frame.listeners
    /\ Top.kind = "user"

\* C15: a step that calls clear(c) on a declared channel raises no error,
\* empties the mapping of c and leaves the mapping of every other channel as it
\* was; a step that calls clear() empties the mapping of every declared channel;
\* both leave the debug configuration, the logger, the declared channels and the
\* channels that have a mapping as they were.
C15_Step ==
    (last'.op = "clear" /\ (last'.args[1] = Undefined \/ ValidEvent(last'.args[1]))) =>
        /\ last'.err = "none"
        /\ IF last'.args[1] = Undefined
           THEN \A e \in validEvents : callbacks'[e.s] = EmptyObject
           ELSE /\ callbacks'[last'.args[1].s] = EmptyObject
                /\ \A n \in DOMAIN callbacks \ {last'.args[1].s} :
                      callbacks'[n] = callbacks[n]
        /\ DOMAIN callbacks' = DOMAIN callbacks
        /\ UNCHANGED <<debugAll, debugFilter, logger, validEvents, eventNames>>

C15_ClearFrame == [][C15_Step]_vars

\* C15 witness: a listener of a pass on 'a' has called clear('a'): 'a' is empty
\* and the listener of 'b' is still registered.
C15_Witness ==
    /\ last.op = "clear"
    /\ last.err = "none"
    /\ last.args = <<A>>
    /\ \E f \in EmitFrames : f.eventName = A /\ f.atCall # EmptyObject
    /\ callbacks[A.s] = EmptyObject
    /\ callbacks[B.s] # EmptyObject

\* The distinct ids registered on a channel, and their number over a set of
\* channels.
IdSet(e) == {callbacks[e.s][i].key : i \in 1..Len(callbacks[e.s])}

RECURSIVE IdsOver(_)
IdsOver(S) ==
    IF S = {} THEN 0
    ELSE LET e == CHOOSE x \in S : TRUE
         IN  Cardinality(IdSet(e)) + IdsOver(S \ {e})

\* C16: in every state, for every declared channel c, listenerCount(c) returns
\* the number of distinct ids registered on c, which is the length of
\* listeners(c), and listenerCount() returns the sum of listenerCount(c) over the
\* declared channels; the calls user code makes return these numbers.
C16_Counts ==
    /\ \A e \in validEvents :
          /\ listenerCount(e).err = "none"
          /\ listenerCount(e).num = Cardinality(IdSet(e))
          /\ listenerCount(e).num = Len(listeners(e).list)
    /\ listenerCount(Undefined).err = "none"
    /\ listenerCount(Undefined).num = IdsOver(validEvents)
    /\ (last.op = "listenerCount" /\ last.err = "none") =>
          last.num = IF last.args[1] = Undefined THEN IdsOver(validEvents)
                     ELSE Cardinality(IdSet(last.args[1]))

\* C16 witness: listenerCount() has returned 3, two ids being registered on one
\* channel and one on the other.
C16_Witness ==
    /\ last.op = "listenerCount"
    /\ last.args = <<Undefined>>
    /\ last.num = 3
    /\ Len(callbacks[A.s]) = 2
    /\ Len(callbacks[B.s]) = 1

\* The callbacks emit(e) would call, in the order of its calls, and their
\* concatenation over a list of channels.
WouldDispatch(e) == emit(e, Undefined).frames[1].listeners

RECURSIVE DispatchOver(_)
DispatchOver(names) ==
    IF names = <<>> THEN <<>>
    ELSE WouldDispatch(Head(names)) \o DispatchOver(Tail(names))

\* C17: in every state, for every declared channel c, listeners(c) returns the
\* callbacks registered on c in the order in which emit(c) would call them, and
\* listeners() returns the concatenation of listeners(c) over the channels in
\* the order of their declaration; the calls user code makes return these
\* lists.  The array returned is a new one: a step in which user code changes it
\* leaves the registry as it was.
C17_Lists ==
    /\ \A e \in validEvents :
          /\ listeners(e).err = "none"
          /\ listeners(e).list = WouldDispatch(e)
    /\ listeners(Undefined).err = "none"
    /\ listeners(Undefined).list = DispatchOver(DeclaredNames)
    /\ (last.op = "listeners" /\ last.err = "none") =>
          last.list = IF last.args[1] = Undefined THEN DispatchOver(DeclaredNames)
                      ELSE WouldDispatch(last.args[1])

C17_Step ==
    (last'.op = "mutate" /\ last'.args = <<Str(<<"listeners">>)>>) =>
        /\ last'.list # last.list
        /\ callbacks' = callbacks

C17_Listeners == []C17_Lists /\ [][C17_Step]_vars

\* C17 witness: listeners() has returned the listener of 'a' followed by the
\* listener of 'b', which was registered first, and user code has changed the
\* array.
C17_Witness ==
    /\ last.op = "mutate"
    /\ last.args = <<Str(<<"listeners">>)>>
    /\ calls = 3
    /\ callbacks[A.s] = <<[key |-> K.s, value |-> Fn("f2")]>>
    /\ callbacks[B.s] = <<[key |-> K.s, value |-> Fn("f1")]>>
    /\ last.list = <<Fn("f2"), Fn("f1"), X>>

\* C18: the declared channels never change after construction.  In every state
\* eventNames() returns the names given to createNexusHub in their order; on, emit and listenerCount accept exactly those names, and
\* listenerCount() does not fail.  A step in which user code changes an array
\* that eventNames() returned changes nothing of the hub.
C18_Names ==
    /\ eventNames = DeclaredNames
    /\ validEvents = Range(DeclaredNames)
    /\ DOMAIN callbacks = {n.s : n \in Range(DeclaredNames)}
    /\ hubEventNames.err = "none"
    /\ hubEventNames.list = DeclaredNames
    /\ last.op = "eventNames" => last.list = DeclaredNames
    /\ \A e \in EventArgs :
          /\ on(e, K, Fn("f1")).err = "none" <=> e \in Range(DeclaredNames)
          /\ emit(e, Undefined).err = "none" <=> e \in Range(DeclaredNames)
          /\ e # Undefined =>
                (listenerCount(e).err = "none" <=> e \in Range(DeclaredNames))
    /\ listenerCount(Undefined).err = "none"

C18_Step ==
    (last'.op = "mutate" /\ last'.args = <<Str(<<"eventNames">>)>>) =>
        /\ last'.list # last.list
        /\ UNCHANGED <<eventNames, validEvents, callbacks, debugAll, debugFilter,
                       logger, stack>>

C18_ChannelSetFixed == []C18_Names /\ [][C18_Step]_vars

\* C18 witness: user code has removed a name from the array that eventNames()
\* returned, inside a listener, after the hub was used.
C18_Witness ==
    /\ last.op = "mutate"
    /\ last.args = <<Str(<<"eventNames">>)>>
    /\ last.list = <<A>>
    /\ stack # <<>>
    /\ callbacks[A.s] # EmptyObject

\* C19 (independent channels): a step that calls on or once for a declared
\* channel c1 leaves the mapping of every other channel as it was, so that a
\* listener registered under the same id on c2 keeps its callback; an emit(c1)
\* takes the listeners of c1 and calls only them, as many calls as c1 had
\* listeners when emit was called.
C19_Step ==
    /\ (last'.op \in {"on", "once"} /\ ValidEvent(last'.args[1])) =>
          /\ \A n \in DOMAIN callbacks \ {last'.args[1].s} : callbacks'[n] = callbacks[n]
          /\ DOMAIN callbacks' = DOMAIN callbacks
    /\ last'.op = "emit:enter" =>
          last'.frame.atCall = callbacks[last'.args[1].s]
    /\ last'.op = "dispatch" =>
          \E j \in 1..Len(Top.atCall) : Top.atCall[j].value = last'.args[1]

C19_OnlyOwn ==
    (last.op = "emit" /\ last.err = "none") =>
        /\ Len(last.frame.invoked) = Len(last.frame.atCall)
        /\ \A j \in 1..Len(last.frame.invoked) :
              \E k \in 1..Len(last.frame.atCall) :
                  last.frame.atCall[k].value = last.frame.invoked[j].fn

C19_Channels == []C19_OnlyOwn /\ [][C19_Step]_vars

\* C19 witness: emit('a') has returned after calling the one listener of 'a',
\* while the id of that listener is registered on 'b' with another callback.
C19_Witness ==
    /\ last.op = "emit"
    /\ last.err = "none"
    /\ last.frame.eventName = A
    /\ Fns(last.frame.invoked) = <<Fn("f2")>>
    /\ callbacks[A.s] = <<[key |-> K.s, value |-> Fn("f2")]>>
    /\ callbacks[B.s] = <<[key |-> K.s, value |-> Fn("f1")]>>

\* C20: a step that calls setDebug with a list that has a name that is not
\* declared throws the Error of an unknown channel and leaves the debug setting
\* as it was; with a list of declared names it enables debug for exactly the
\* names of the list, whatever the setting was; with true or false it enables or
\* disables it for every channel; with any other value it throws a TypeError and
\* leaves the setting as it was.  No call of setDebug changes the registry, the
\* logger or the declared channels.
C20_Step ==
    last'.op = "setDebug" =>
        LET enabled == last'.args[1]
        IN  /\ IF IsArray(enabled)
               THEN IF \E i \in 1..Len(enabled.w) : enabled.w[i] \notin validEvents
                    THEN /\ last'.err = UnknownChannel
                         /\ UNCHANGED <<debugAll, debugFilter>>
                    ELSE /\ last'.err = "none"
                         /\ \A e \in validEvents :
                               DebugEnabled(e)' <=> e \in Range(enabled.w)
               ELSE IF TypeOf(enabled) = "boolean"
               THEN /\ last'.err = "none"
                    /\ \A e \in validEvents : DebugEnabled(e)' <=> enabled = Bool(TRUE)
               ELSE /\ last'.err = InvalidArgument
                    /\ UNCHANGED <<debugAll, debugFilter>>
            /\ UNCHANGED <<callbacks, logger, validEvents, eventNames, stack>>

C20_SetDebug == [][C20_Step]_vars

\* C20 witness: setDebug(['a', 'x']) has thrown and the filter set before, the
\* list with 'b', is in force.
C20_Witness ==
    /\ last.op = "setDebug"
    /\ last.args = <<Arr(<<A, X>>)>>
    /\ last.err = UnknownChannel
    /\ ~debugAll
    /\ debugFilter = SetOf(<<B>>)

\* C21: a step that calls setLogger(fn) with an fn that is not a function throws
\* a TypeError and keeps the logger; with a function it makes fn the logger.  No
\* other step changes the logger, and a debug-enabled emit calls the logger of
\* the moment and no other: after setLogger(fn) that is fn, not the logger before
\* it.  No call of setLogger changes the channels debug is enabled for, or the
\* registry.
C21_Step ==
    /\ IF last'.op = "setLogger"
       THEN /\ IF TypeOf(last'.args[1]) = "function"
               THEN last'.err = "none" /\ logger' = last'.args[1]
               ELSE last'.err = InvalidArgument /\ logger' = logger
            /\ UNCHANGED <<debugAll, debugFilter, callbacks, validEvents, stack>>
       ELSE logger' = logger
    /\ (last'.op = "emit:enter" /\ DebugEnabled(last'.args[1])) =>
          /\ Len(last'.frame.logged) = 1
          /\ last'.frame.logged[1].fn = logger
          /\ \A j \in Len(stack) + 1..Len(stack') :
                stack'[j].role = "logger" => stack'[j].fn = logger

C21_SetLogger == [][C21_Step]_vars

\* C21 witness: an emit calls the function that setLogger was given, and not the
\* default logger, on a channel that has a listener.
C21_Witness ==
    /\ last.op = "emit:enter"
    /\ last.frame.listeners # <<>>
    /\ Len(last.frame.logged) = 1
    /\ last.frame.logged[1].fn = Fn("lg")
    /\ Top.kind = "user"
    /\ Top.fn = Fn("lg")

\* The lines console.error has for the errors of a pass, one for each, in the
\* order in which they were caught.
ErrorLines(errors) == [j \in 1..Len(errors) |-> [line |-> "error", n |-> errors[j]]]

\* C22 (error summary): an emit that returns has written one line for each
\* error a listener threw in the pass, and after them one summary line with the
\* number of errors if and only if there was an error and debug is enabled for
\* the channel when the pass ends; it has written nothing else, and the logger
\* has been called for none of them, whatever the logger is.  While a pass is in
\* flight it has written the line of each error caught so far, once.
C22_Console ==
    /\ (last.op = "emit" /\ last.err = "none") =>
          /\ last.frame.console =
                ErrorLines(last.frame.errors)
                  \o IF last.frame.errors # <<>> /\ DebugEnabled(last.args[1])
                     THEN <<[line |-> "summary", n |-> Len(last.frame.errors)]>>
                     ELSE <<>>
          /\ \A j, k \in 1..Len(last.frame.errors) :
                last.frame.errors[j] = last.frame.errors[k] => j = k
          /\ Len(last.frame.logged) <= 1
    /\ (last.op = "emit" /\ last.err = "thrown") => last.frame.console = <<>>
    /\ \A f \in EmitFrames : f.console = ErrorLines(f.errors)

\* C22 witness: an emit has returned after one of its two listeners threw, with
\* a custom logger set: the console has the line of the error and the summary.
C22_Witness ==
    /\ last.op = "emit"
    /\ last.err = "none"
    /\ logger # DefaultLogger
    /\ Len(last.frame.errors) = 1
    /\ last.frame.console = <<[line |-> "error", n |-> last.frame.errors[1]],
                              [line |-> "summary", n |-> 1]>>

\* The registrations of a registry, as (channel, id, callback).
Registrations(cbs) ==
    UNION {{<<n, cbs[n][j].key, cbs[n][j].value>> : j \in 1..Len(cbs[n])} : n \in DOMAIN cbs}

\* C23 (no retry, no circuit breaking): the step in which a listener registered
\* with on throws leaves the registry as it is and moves forEach to the next
\* listener of the snapshot, so that each listener of the snapshot is called once
\* in a pass; every emit takes all the listeners registered on its channel into
\* its snapshot; and a listener registered with on leaves the registry only in a
\* step of off or clear on its channel (the hub.off of a once wrapper of its
\* channel and id included), or is replaced by an on or once under its channel
\* and id.
C23_Step ==
    /\ last'.op = "throw" =>
          LET f == stack[Len(stack) - Under + 1]
              g == stack'[Len(stack')]
          IN  /\ ~IsWrapper(last'.args[1]) => callbacks' = callbacks
              /\ g.kind = "emit"
              /\ g.listeners = f.listeners
              /\ g.invoked = f.invoked
              /\ g.i = f.i + 1
    /\ last'.op = "dispatch" =>
          /\ Len(Top.invoked) = Top.i
          /\ last'.args[1] = Top.listeners[Top.i + 1]
    /\ last'.op = "emit:enter" =>
          last'.frame.listeners = ObjectValues(callbacks[last'.args[1].s])
    /\ (last'.op = "emit" /\ last'.err = "none") =>
          Fns(last'.frame.invoked) = last'.frame.listeners
    /\ \A r \in Registrations(callbacks) :
          (~IsWrapper(r[3]) /\ r \notin Registrations(callbacks')) =>
             /\ last'.err = "none"
             /\ IF last'.op = "off"
                THEN /\ last'.args[1].s = r[1]
                     /\ IF last'.args[2] = Undefined THEN TRUE ELSE last'.args[2].s = r[2]
                ELSE IF last'.op = "clear"
                THEN IF last'.args[1] = Undefined THEN TRUE ELSE last'.args[1].s = r[1]
                ELSE IF last'.op \in {"on", "once"}
                THEN last'.args[1].s = r[1] /\ last'.args[2].s = r[2]
                ELSE /\ last'.op = "return"
                     /\ IsWrapper(last'.args[1])
                     /\ last'.args[1].w[2].s = r[1]
                     /\ last'.args[1].w[3].s = r[2]

C23_NoRetry == [][C23_Step]_vars

\* C23 witness: the first listener of a pass, registered with on, has thrown; the
\* second listener has started another emission on the channel, which has called
\* the first listener again.
C23_Witness ==
    /\ Len(stack) >= 3
    /\ stack[1].kind = "emit"
    /\ stack[1].errors = <<1>>
    /\ ~IsWrapper(stack[1].listeners[1])
    /\ \E j \in 2..Len(stack) :
          /\ stack[j].kind = "emit"
          /\ stack[j].eventName = stack[1].eventName
          /\ stack[j].invoked # <<>>
          /\ stack[j].invoked[1].fn = stack[1].listeners[1]

\* C24 (channel-set invariant): the channel set of every hub that construction
\* returns is non-empty, has no name twice, and has only non-empty strings; and
\* construction fails for every input that is not such a collection.
C24_ChannelSet ==
    /\ (HubReturned /\ last.op # "start") =>
          /\ eventNames # <<>>
          /\ Cardinality(Range(eventNames)) = Len(eventNames)
          /\ \A i \in 1..Len(eventNames) :
                TypeOf(eventNames[i]) = "string" /\ eventNames[i].s # <<>>
          /\ validEvents = Range(eventNames)
    /\ last.op = "createNexusHub" =>
          LET names == last.args[1]
          IN  (\/ NotAnArray(names) \/ Empty(names) \/ Duplicates(names)
               \/ NonString(names)
               \/ \E i \in 1..Len(names.w) : names.w[i] = Str(<<>>))
                => (last.err # "none" /\ ~HubReturned)

\* What the code keeps of C24: the names of a hub are strings, with no name
\* twice, and there is at least one.
C24_ChannelSetOfStrings ==
    (HubReturned /\ last.op # "start") =>
       /\ eventNames # <<>>
       /\ Cardinality(Range(eventNames)) = Len(eventNames)
       /\ \A i \in 1..Len(eventNames) : TypeOf(eventNames[i]) = "string"
       /\ validEvents = Range(eventNames)

\* C25 (off and its id): on a declared channel, off with an id that is given
\* and is not a string fails with InvalidArgument and leaves the registry as it
\* is; off with a string id removes that id of the channel and nothing else; only
\* off with the id omitted (undefined) empties the channel, and it leaves the
\* other channels as they are.
C25_Step ==
    (last'.op = "off" /\ ValidEvent(last'.args[1])) =>
        LET c == last'.args[1].s
            id == last'.args[2]
        IN  IF id = Undefined
            THEN /\ last'.err = "none"
                 /\ callbacks' = [callbacks EXCEPT ![c] = EmptyObject]
            ELSE IF TypeOf(id) # "string"
            THEN /\ last'.err = InvalidArgument
                 /\ callbacks' = callbacks
            ELSE /\ last'.err = "none"
                 /\ callbacks' = [callbacks EXCEPT ![c] = DeleteOwn(@, id.s)]
                 /\ Len(callbacks'[c]) >= Len(callbacks[c]) - 1

C25_OffId == [][C25_Step]_vars

\* C25 witness: off('a', 7) has thrown the TypeError and the two listeners of
\* the channel are still registered.
C25_Witness ==
    /\ last.op = "off"
    /\ last.args = <<A, Num(<<"7">>)>>
    /\ last.err = InvalidArgument
    /\ Len(callbacks[A.s]) = 2

\* C26 (once validates as on): a once(c, id, cb) fails exactly when
\* on(c, id, cb) would fail in the same state, and with the same kind of error,
\* and so for an on; a once that fails leaves the registry as it is.  After a
\* once, the same holds of every channel, id and callback that could have been
\* passed.
C26_Step ==
    /\ last'.op = "once" =>
          /\ last'.err = on(last'.args[1], last'.args[2], last'.args[3]).err
          /\ last'.err # "none" => callbacks' = callbacks
    /\ last'.op = "on" =>
          last'.err = once(last'.args[1], last'.args[2], last'.args[3]).err

C26_AnyArgs ==
    last.op = "once" =>
       \A e \in EventArgs, id \in IdArgs, cb \in CallbackArgs :
          /\ once(e, id, cb).err = on(e, id, cb).err
          /\ once(e, id, cb).err # "none" => once(e, id, cb).callbacks = callbacks

C26_OnceAsOn == []C26_AnyArgs /\ [][C26_Step]_vars

\* C26 witness: once('a', 'k', 'n') has thrown the TypeError with a listener
\* registered on the channel.
C26_Witness ==
    /\ last.op = "once"
    /\ last.args = <<A, K, Str(<<"n">>)>>
    /\ last.err = InvalidArgument
    /\ callbacks[A.s] # EmptyObject

\* C27 (chaining): every on, once, off, clear, setDebug and setLogger that
\* succeeds returns the hub it was called on, so that the call chained to it is a
\* call of the same hub, made in the state the first call left; a call that
\* fails returns nothing, and the queries and emit do not return the hub.
C27_Chaining ==
    /\ (last.op \in {"on", "once", "off", "clear", "setDebug", "setLogger"}
          /\ last.err = "none") => last.ref = "hub"
    /\ last.err # "none" => last.ref # "hub"
    /\ last.op \in {"emit", "listenerCount", "listeners", "eventNames"} => last.ref # "hub"

\* C27 witness: a setLogger made after a once that registered its wrapper, as
\* in hub.once('a', 'k', f1).setLogger(lg), has returned the hub.
C27_Witness ==
    /\ last.op = "setLogger"
    /\ last.err = "none"
    /\ last.ref = "hub"
    /\ logger = Fn("lg")
    /\ callbacks[A.s] # EmptyObject
    /\ IsWrapper(callbacks[A.s][1].value)

\* The ends of the calls of once wrappers in a scripted run.
WrapperEnds ==
    SelectSeq(hist, LAMBDA h : h.op \in {"return", "throw"} /\ IsWrapper(h.args[1]))

\* C28 (once callback that throws): the step in which the callback of a once
\* wrapper throws leaves the wrapper registered, and the step in which it
\* returns removes the wrapper's id from its channel.  When the caller has run
\* once(c, id, cb); emit(c, p1); listenerCount(c); emit(c, p2) and cb threw in
\* the first emission, listenerCount(c) returned 1, the second emission called cb
\* again, with p2, and the listener is gone at the end if and only if that
\* second call returned; when cb returned in the first emission it was called
\* once and listenerCount(c) returned 0.
C28_Step ==
    (last'.op \in {"return", "throw"} /\ IsWrapper(last'.args[1])) =>
        LET c == last'.args[1].w[2].s
            id == last'.args[1].w[3].s
        IN  IF last'.op = "throw"
            THEN /\ callbacks' = callbacks
                 /\ HasOwn(callbacks'[c], id)
                 /\ GetOwn(callbacks'[c], id) = last'.args[1]
            ELSE /\ ~HasOwn(callbacks'[c], id)
                 /\ callbacks' = [callbacks EXCEPT ![c] = DeleteOwn(@, id)]

C28_Runs ==
    ScriptDone =>
        LET c == script[1].args[1].s
            cb == script[1].args[3]
            p1 == script[2].args[2]
            p2 == script[4].args[2]
            counts == SelectSeq(hist, LAMBDA h : h.op = "listenerCount")
        IN  /\ WrapperEnds # <<>>
            /\ Len(counts) = 1
            /\ IF WrapperEnds[1].op = "throw"
               THEN /\ counts[1].num = 1
                    /\ RunsOf(cb) = << <<p1>>, <<p2>> >>
                    /\ Len(WrapperEnds) = 2
                    /\ (callbacks[c] = EmptyObject) <=> (WrapperEnds[2].op = "return")
               ELSE /\ counts[1].num = 0
                    /\ RunsOf(cb) = << <<p1>> >>
                    /\ Len(WrapperEnds) = 1
                    /\ callbacks[c] = EmptyObject

WrappersInFlight == {j \in 1..Len(stack) : stack[j].kind = "wrapper"}

\* C29 (once under re-entrant emission): when every hub call made so far but
\* one is an emit that is still in flight, so that at most one once has been
\* called, and no callback has thrown, at most one call of a once wrapper, and so
\* of its callback, is in flight: the callback of one once registration is not
\* called a second time by an emission that a listener starts during the pass.
C29_OnceNotReentered ==
    (calls = EmitDepth + 1 /\ \A f \in EmitFrames : f.errors = <<>>) =>
        Cardinality(WrappersInFlight) <= 1

\* What the code keeps of C29: after the call of a once wrapper has returned,
\* its id is not registered on its channel, so that no later emission calls it.
C29_GoneAfterReturn ==
    (last.op = "return" /\ IsWrapper(last.args[1])) =>
        ~HasOwn(callbacks[last.args[1].w[2].s], last.args[1].w[3].s)

\* C30 (self-removal removes only its own registration): when the call of a
\* once wrapper returns while its channel and id hold another callback, one
\* registered under them after the once call, the step leaves the registry as it
\* is: that listener is still registered.
C30_Step ==
    (last'.op = "return" /\ IsWrapper(last'.args[1])) =>
        LET c == last'.args[1].w[2].s
            id == last'.args[1].w[3].s
        IN  (HasOwn(callbacks[c], id) /\ GetOwn(callbacks[c], id) # last'.args[1]) =>
                /\ callbacks' = callbacks
                /\ HasOwn(callbacks'[c], id)

C30_OnlyOwnRegistration == [][C30_Step]_vars

\* What the code keeps of C30: the self-removal of a once wrapper leaves every
\* other id of its channel, and every other channel, as they are.
C30_StepOtherIds ==
    (last'.op = "return" /\ IsWrapper(last'.args[1])) =>
        callbacks' = [callbacks EXCEPT ![last'.args[1].w[2].s] =
                                           DeleteOwn(@, last'.args[1].w[3].s)]

C30_OtherIdsKept == [][C30_StepOtherIds]_vars

\* C31 (logger isolation): an emit on a declared channel that has ended has
\* returned, not thrown, and has called every listener of its snapshot, in
\* snapshot order, whatever the listeners and the logger did.
C31_LoggerIsolated ==
    (last.op = "emit" /\ ValidEvent(last.args[1])) =>
        /\ last.err = "none"
        /\ Fns(last.frame.invoked) = last.frame.listeners

\* What the code keeps of C31: an emit on a declared channel throws only what
\* its logger threw, before any listener is called; an emit whose logger
\* returned, or was not called, returns after calling every listener.
C31_OnlyTheLoggerThrows ==
    (last.op = "emit" /\ ValidEvent(last.args[1])) =>
        IF last.err = "none"
        THEN Fns(last.frame.invoked) = last.frame.listeners
        ELSE /\ last.err = "thrown"
             /\ Len(last.frame.logged) = 1
             /\ last.frame.invoked = <<>>
             /\ last.frame.errors = <<>>

\* C32 (registry invariant): in every state the hub operations reach, the
\* registry has a mapping for each declared channel and for nothing else, every
\* registered id is a string with a character that is not white space, and every
\* registered value is a function; the on and once that succeed were given such
\* an id and a function; and a step in which an operation fails leaves the
\* registry as it was.
C32_Registry ==
    /\ DOMAIN callbacks = {n.s : n \in validEvents}
    /\ validEvents = Range(DeclaredNames)
    /\ \A r \in Registrations(callbacks) :
          /\ Trim(r[2]) # <<>>
          /\ TypeOf(r[3]) = "function"

C32_Step ==
    /\ last'.err # "none" => callbacks' = callbacks
    /\ (last'.op \in {"on", "once"} /\ last'.err = "none") =>
          /\ TypeOf(last'.args[2]) = "string"
          /\ Trim(last'.args[2].s) # <<>>
          /\ TypeOf(last'.args[3]) = "function"

C32_RegistryInvariant == []C32_Registry /\ [][C32_Step]_vars

\* C32 witness: an on with a white-space id has failed in a state where a
\* channel has two listeners, one of them under an id with digits only.
C32_Witness ==
    /\ last.op = "on"
    /\ last.args[2] = Str(<<" ">>)
    /\ last.err = InvalidArgument
    /\ Len(callbacks[A.s]) = 2
    /\ HasOwn(callbacks[A.s], One.s)

\* C33 (independence from the caller's array): whatever the caller has done to
\* the array it passed to createNexusHub, eventNames() returns the names declared
\* at construction, clear(), listenerCount() and listeners() do not fail,
\* listenerCount() and listeners() give the count and the listeners of the
\* declared channels, clear() has emptied each declared channel, and the
\* registry has the declared channels and no others.
C33_ArrayIndependence ==
    /\ last.op = "eventNames" => (last.err = "none" /\ last.list = DeclaredNames)
    /\ (last.op \in {"clear", "listenerCount", "listeners"}
          /\ last.args = <<Undefined>>) =>
          /\ last.err = "none"
          /\ last.op = "clear" =>
                \A n \in Range(DeclaredNames) : callbacks[n.s] = EmptyObject
          /\ last.op = "listenerCount" => last.num = TotalCount(DeclaredNames)
          /\ last.op = "listeners" => last.list = AllListeners(DeclaredNames)
    /\ DOMAIN callbacks = {n.s : n \in Range(DeclaredNames)}

\* What the code keeps of C33: the operations that name a channel go by
\* validEvents, the copy made at construction, whatever the caller's array is.
C33_NamedChannels ==
    /\ validEvents = Range(DeclaredNames)
    /\ (last.op \in {"on", "clear", "listenerCount", "listeners"}
          /\ last.args[1] # Undefined) =>
          /\ (last.err = "Error") <=> (last.args[1] \notin Range(DeclaredNames))
          /\ (last.op = "listenerCount" /\ last.err = "none") =>
                last.num = Len(callbacks[last.args[1].s])
          /\ (last.op = "listeners" /\ last.err = "none") =>
                last.list = ObjectValues(callbacks[last.args[1].s])

\* An on or once that registers an id that is registered on its channel
\* replaces the callback where it is: the ids and the other callbacks of the
\* channel stay as they are, in the same order.
C34_InPlace ==
    (last'.op \in {"on", "once"} /\ last'.err = "none"
       /\ HasOwn(callbacks[last'.args[1].s], last'.args[2].s)) =>
        callbacks'[last'.args[1].s] =
            [i \in 1..Len(callbacks[last'.args[1].s]) |->
                IF callbacks[last'.args[1].s][i].key = last'.args[2].s
                THEN [key |-> last'.args[2].s, value |-> Stored(last'.op, last'.args)]
                ELSE callbacks[last'.args[1].s][i]]

\* An on(c, id, cb) that follows off(c, id).
OnAfterOff ==
    /\ last.op = "off"
    /\ last.err = "none"
    /\ last'.op = "on"
    /\ last'.err = "none"
    /\ last'.args[1] = last.args[1]
    /\ last'.args[2] = last.args[2]

\* C34 (re-registration): an on or once of a registered id replaces its callback
\* in place, the listener keeping its position in the dispatch order; an
\* on(c, id, cb) that follows off(c, id) puts the listener after all the
\* listeners registered on c.
C34_Step ==
    /\ C34_InPlace
    /\ OnAfterOff =>
          callbacks'[last'.args[1].s] =
              Append(callbacks[last'.args[1].s],
                     [key |-> last'.args[2].s, value |-> last'.args[3]])

C34_Reregistration == [][C34_Step]_vars

\* What the code keeps of C34: the replacement in place for every id, and the
\* place at the end after off for the ids that are not the decimal form of an
\* integer.
C34_StepByKey ==
    /\ C34_InPlace
    /\ (OnAfterOff /\ ~IsIntegerIndex(last'.args[2].s)) =>
          callbacks'[last'.args[1].s] =
              Append(callbacks[last'.args[1].s],
                     [key |-> last'.args[2].s, value |-> last'.args[3]])

C34_ReregistrationByKey == [][C34_StepByKey]_vars

====
